---- MODULE Spec2Model ----
(***************************************************************************)
(* gen_dispatch.py: the GL dispatch generator (alias reduction, provider   *)
(* merge, bootstrap override, emission of the dispatch table, resolvers    *)
(* and call stubs) and the run-time behaviour of the C code it emits.      *)
(***************************************************************************)
EXTENDS Integers, Sequences, FiniteSets, TLC

\* ------------------------------------------------------------------ bounds

\* Number of <command> elements of the registry (the generator's functions dict).
NumFuncs == 3

\* Number of threads calling into the emitted dispatch stubs.
NumThreads == 2

\* ------------------------------------------------------------------ names

\* GLFunction.alias_name / alias_func when unset.
None == "None"

\* The NULL function pointer of the emitted C code (a zeroed dispatch slot).
NULL == <<"NULL", "NULL">>

\* Command names of the registry, in the order the bound admits them.
AllNames == <<"glGetString", "glFoo", "glFooARB", "glFooEXT", "glXGetProcAddress">>

Names == {AllNames[i] : i \in 1..NumFuncs}

\* An <alias name=...> that no <command> of the registry declares.
Undeclared == "glUndeclared"

\* Generator.__init__: the two loader templates.
dlsym_loader == "epoxy_dlsym"

gpa_loader == "epoxy_get_proc_address"

\* template.format(name): the loader call text, template and symbol kept apart.
Format(template, name) == <<template, name>>

\* The names main hands to fixup_bootstrap_function, in call order.
BootstrapList == <<"glGetString", "glGetIntegerv", "glXGetProcAddress">>

BootstrapNames == {BootstrapList[i] : i \in 1..Len(BootstrapList)}

\* parse_function_providers: (condition, loader template, human_name) of the
\* features/extensions of the registry, in document order: a core feature
\* (version <= 12, dlsym) and a GL extension (get_proc_address).
Features ==
  << [condition |-> "epoxy_is_desktop_gl()", loader |-> dlsym_loader,
      human_name |-> "Desktop OpenGL 1.0"],
     [condition |-> "epoxy_has_gl_extension(GL_ARB_foo)", loader |-> gpa_loader,
      human_name |-> "GL extension GL_ARB_foo"] >>

Conditions == {Features[i].condition : i \in 1..Len(Features)}

\* Which features <require> a command: index lists in document order.
Requires == {<<>>, <<1>>, <<2>>, <<1, 2>>}

\* args_decl strings of the registry; two of them name the SGIX types.
ArgDecls == {"void", "VLServer server", "DMparams *params"}

VARIABLES
  functions,   \* Generator.functions: name -> GLFunction
  input,       \* the registry as parsed (functions at the end of parse)
  pc,          \* position of the main sequence, or the exception that ended it
  bootIdx,     \* which fixup_bootstrap_function call of main is next
  table_slots, \* members of the emitted struct dispatch_table
  resolvers,   \* emitted epoxy_<name>_resolver bodies, by name
  stubs,       \* emitted epoxy_<name> stubs, by name
  env,         \* run time: truth of each provider condition
  nosym,       \* run time: symbols no loader finds
  table,       \* run time: local_dispatch_table, slot -> address or NULL
  tpc,         \* run time: each thread's position in the stub it executes
  tfn,         \* run time: the stub each thread executes
  tval,        \* run time: the resolver's return value not yet stored
  halted,      \* run time: "no", "abort" (resolver) or "segv" (call through NULL)
  printed,     \* run time: the aborting resolver's printf lines (name, then list)
  runs,        \* history: resolver name -> times its body ran
  called,      \* history: slot -> addresses called through it
  loaded,      \* history: loader calls made
  lastrun      \* history: the last resolver run, the conditions it tested, its loader

gvars == <<functions, input, pc, bootIdx, table_slots, resolvers, stubs>>

rvars == <<env, nosym, table, tpc, tfn, tval, halted, printed, runs, called, loaded,
          lastrun>>

vars == <<functions, input, pc, bootIdx, table_slots, resolvers, stubs,
          env, nosym, table, tpc, tfn, tval, halted, printed, runs, called, loaded,
          lastrun>>

Threads == 1..NumThreads

\* ------------------------------------------------------------- GLFunction

\* GLFunction.__init__ plus what parse_function_definitions sets.
GLFunction(name, alias, args_decl) ==
  [name |-> name, providers |-> <<>>, args_decl |-> args_decl,
   alias_name |-> alias, alias_func |-> None, alias_exts |-> <<>>]

\* GLFunction.add_provider
add_provider(func, condition, loader, human_name) ==
  [func EXCEPT !.providers =
     Append(@, [condition |-> condition, loader |-> loader, human_name |-> human_name])]

\* process_require_statements, for one command over the features requiring it.
RECURSIVE process_require_statements(_, _)
process_require_statements(func, req) ==
  IF req = <<>> THEN func
  ELSE LET feat == Features[Head(req)]
       IN process_require_statements(
            add_provider(func, feat.condition, Format(feat.loader, func.name),
                         feat.human_name),
            Tail(req))

\* ------------------------------------------------- drop_weird_glx_functions

IsWeird(func) ==
  func.args_decl \in {"VLServer server", "DMparams *params"}

DropWeird(fs) ==
  [n \in {m \in DOMAIN fs : ~IsWeird(fs[m])} |-> fs[n]]

\* ---------------------------------------------------------- resolve_aliases

MutWalkMissingIsRoot(fs, cur, fuel) ==
  LET step[c \in DOMAIN fs, k \in 0..fuel] ==
        IF fs[c].alias_name = None \/ fs[c].alias_name \notin DOMAIN fs
          THEN [st |-> "ok", root |-> c]
        ELSE IF k = 0 THEN [st |-> "diverged", root |-> None]
        ELSE step[fs[c].alias_name, k - 1]
  IN step[cur, fuel]

\* The while loop of resolve_aliases: follow alias_name from cur to a function
\* without one. A missing key raises KeyError; more hops than there are
\* functions means a cycle, on which the loop never ends.
RECURSIVE Walk(_, _, _)
Walk(fs, cur, fuel) ==
  IF fs[cur].alias_name = None THEN [st |-> "ok", root |-> cur]
  ELSE IF fs[cur].alias_name \notin DOMAIN fs THEN [st |-> "KeyError", root |-> None]
  ELSE IF fuel = 0 THEN [st |-> "diverged", root |-> None]
  ELSE Walk(fs, fs[cur].alias_name, fuel - 1)

\* One hop only, registered through GLFunction.add_alias and its assertions.
MutResolveAddAlias(fs, f) ==
  IF fs[f].alias_name = None THEN [st |-> "ok", fs |-> fs]
  ELSE IF fs[f].alias_name \notin DOMAIN fs THEN [st |-> "KeyError", fs |-> fs]
  ELSE LET t == fs[f].alias_name
       IN IF fs[f].alias_exts # <<>> \/ fs[t].alias_func # None
            THEN [st |-> "AssertionError", fs |-> fs]
          ELSE [st |-> "ok",
                fs |-> [fs EXCEPT ![t].alias_exts = Append(@, f),
                                  ![f].alias_func = t]]

\* One hop only: the function is registered with its direct target.
MutResolveOneHop(fs, f) ==
  IF fs[f].alias_name = None THEN [st |-> "ok", fs |-> fs]
  ELSE IF fs[f].alias_name \notin DOMAIN fs THEN [st |-> "KeyError", fs |-> fs]
  ELSE LET t == fs[f].alias_name
       IN [st |-> "ok",
           fs |-> [fs EXCEPT ![t].alias_exts = Append(@, f), ![f].alias_func = t]]

\* The body of the for loop of resolve_aliases, for one function.
ResolveOne(fs, f) ==
  IF fs[f].alias_name = None THEN [st |-> "ok", fs |-> fs]
  ELSE LET w == Walk(fs, f, Cardinality(DOMAIN fs))
       IN IF w.st # "ok" THEN [st |-> w.st, fs |-> fs]
          ELSE [st |-> "ok",
                fs |-> [fs EXCEPT ![w.root].alias_exts = Append(@, f),
                                  ![f].alias_name = w.root,
                                  ![f].alias_func = w.root]]

\* The for loop over self.functions.values(), in the dict's iteration order.
RECURSIVE ResolveAll(_, _)
ResolveAll(fs, order) ==
  IF order = <<>> THEN [st |-> "ok", fs |-> fs]
  ELSE LET r == ResolveOne(fs, Head(order))
       IN IF r.st # "ok" THEN r ELSE ResolveAll(r.fs, Tail(order))

\* The iteration orders a dict over the keys S can have.
Orders(S) ==
  {o \in [1..Cardinality(S) -> S] : \A i, j \in 1..Cardinality(S) : o[i] = o[j] => i = j}

\* ------------------------------------------------- fixup_bootstrap_function

MutFixupKeepsProviders(fs, name) ==
  IF name \notin DOMAIN fs THEN fs
  ELSE [fs EXCEPT ![name] =
          add_provider(fs[name], "true", Format(dlsym_loader, fs[name].name),
                       "always present")]

FixupBootstrap(fs, name) ==
  IF name \notin DOMAIN fs THEN fs
  ELSE [fs EXCEPT ![name] =
          add_provider([fs[name] EXCEPT !.providers = <<>>], "true",
                       Format(dlsym_loader, fs[name].name), "always present")]

\* ---------------------------------------------- write_function_ptr_resolver

IsGLX(name) == name = "glXGetProcAddress"

Last(seq) == seq[Len(seq)]

RECURSIVE AliasProviders(_, _)
AliasProviders(fs, exts) ==
  IF exts = <<>> THEN <<>>
  ELSE fs[Head(exts)].providers \o AliasProviders(fs, Tail(exts))

MutMergedAliasesFirst(fs, name) ==
  AliasProviders(fs, fs[name].alias_exts) \o fs[name].providers

\* The local list "providers": the function's own, then those of each of its
\* alias_exts.
MergedProviders(fs, name) ==
  fs[name].providers \o AliasProviders(fs, fs[name].alias_exts)

HasGlobalLoader(providers) ==
  \E i \in 1..Len(providers) : providers[i].condition = "true"

\* The emitted resolver: the autoinit call, then either one unconditional
\* return or one guarded return per provider, then the printf lines and abort().
\* The unconditional return formats "loader", which after the search loop is
\* bound to the loader of the last provider of the list.
Resolver(fs, name) ==
  LET providers == MergedProviders(fs, name)
  IN [autoinit |-> IF IsGLX(name) THEN "epoxy_glx_autoinit"
                   ELSE "epoxy_platform_autoinit",
      providers |-> providers,
      body |-> IF HasGlobalLoader(providers)
                 THEN << [guard |-> "", ret |-> Last(providers).loader] >>
               ELSE [i \in 1..Len(providers) |->
                       [guard |-> providers[i].condition, ret |-> providers[i].loader]],
      diag |-> IF Len(fs[name].providers) = 0 THEN << "unknown" >>
               ELSE [i \in 1..Len(fs[name].providers) |->
                       fs[name].providers[i].human_name]]

\* ------------------------------------------------ write_dispatch_table_stub

\* The emitted stub: which dispatch_table member it tests, assigns and calls
\* through, and which resolver it calls.
Stub(fs, name) ==
  LET alias_name == IF fs[name].alias_name # None THEN fs[name].alias_name ELSE name
  IN [entry |-> alias_name, resolver |-> alias_name]

\* ---------------------------------------------------------------- main

NoRun ==
  /\ table = <<>>
  /\ tpc = [t \in Threads |-> "idle"]
  /\ tfn = [t \in Threads |-> None]
  /\ tval = [t \in Threads |-> NULL]
  /\ halted = "no"
  /\ printed = <<>>
  /\ runs = <<>>
  /\ called = <<>>
  /\ loaded = {}
  /\ lastrun = [resolver |-> None, tested |-> <<>>, loader |-> NULL]

Parsed(alias, args, req) ==
  [n \in DOMAIN alias |->
     process_require_statements(GLFunction(n, alias[n], args[n]), req[n])]

InitWith(fs) ==
  /\ functions = fs
  /\ input = fs
  /\ pc = "drop"
  /\ bootIdx = 1
  /\ table_slots = {}
  /\ resolvers = <<>>
  /\ stubs = <<>>
  /\ NoRun

drop_weird_glx_functions ==
  /\ pc = "drop"
  /\ functions' = DropWeird(functions)
  /\ pc' = "resolve"
  /\ UNCHANGED <<input, bootIdx, table_slots, resolvers, stubs>>
  /\ UNCHANGED rvars

resolve_aliases ==
  /\ pc = "resolve"
  /\ \E order \in Orders(DOMAIN functions) :
       LET r == ResolveAll(functions, order)
       IN /\ functions' = r.fs
          /\ pc' = IF r.st = "ok" THEN "fixup" ELSE r.st
  /\ UNCHANGED <<input, bootIdx, table_slots, resolvers, stubs>>
  /\ UNCHANGED rvars

fixup_bootstrap_function ==
  /\ pc = "fixup"
  /\ functions' = FixupBootstrap(functions, BootstrapList[bootIdx])
  /\ IF bootIdx = Len(BootstrapList)
       THEN pc' = "write" /\ bootIdx' = bootIdx
       ELSE pc' = pc /\ bootIdx' = bootIdx + 1
  /\ UNCHANGED <<input, table_slots, resolvers, stubs>>
  /\ UNCHANGED rvars

write_source ==
  /\ pc = "write"
  /\ table_slots' = {n \in DOMAIN functions : functions[n].alias_name = None}
  /\ resolvers' = [n \in {m \in DOMAIN functions : functions[m].alias_func = None}
                     |-> Resolver(functions, n)]
  /\ stubs' = [n \in DOMAIN functions |-> Stub(functions, n)]
  /\ pc' = "run"
  /\ table' = [s \in table_slots' |-> NULL]
  /\ runs' = [n \in DOMAIN resolvers' |-> 0]
  /\ called' = [s \in table_slots' |-> {}]
  /\ UNCHANGED <<functions, input, bootIdx>>
  /\ UNCHANGED <<env, nosym, tpc, tfn, tval, halted, printed, loaded, lastrun>>

\* ------------------------------------------------ the registries explored

AtMostOneWeird ==
  {a \in [Names -> ArgDecls] : \A m, n \in Names : (a[m] # "void" /\ a[n] # "void") => m = n}

RECURSIVE Reach(_, _, _)
Reach(alias, S, k) ==
  IF k = 0 THEN S
  ELSE Reach(alias, S \cup {alias[n] : n \in S \cap DOMAIN alias}, k - 1)

\* Names reachable from n by one or more alias links.
Targets(alias, n) ==
  Reach(alias, {alias[n]}, Cardinality(DOMAIN alias)) \ {None}

IsForest(alias) ==
  \A n \in DOMAIN alias :
    /\ n \notin Targets(alias, n)
    /\ Targets(alias, n) \subseteq DOMAIN alias

InitAlias ==
  /\ \E alias \in [Names -> Names \cup {None, Undeclared}], args \in AtMostOneWeird :
       InitWith(Parsed(alias, args, [n \in Names |-> <<>>]))
  /\ env = [c \in Conditions |-> FALSE]
  /\ nosym = {}

InitGen ==
  /\ \E alias \in {a \in [Names -> Names \cup {None}] : IsForest(a)},
        req \in [Names -> Requires] :
       InitWith(Parsed(alias, [n \in Names |-> "void"], req))
  /\ env = [c \in Conditions |-> FALSE]
  /\ nosym = {}

NextAlias ==
  \/ drop_weird_glx_functions
  \/ resolve_aliases

NextGen ==
  \/ drop_weird_glx_functions
  \/ resolve_aliases
  \/ fixup_bootstrap_function
  \/ write_source

\* Alias reduction over every registry of NumFuncs commands.
SpecAlias == InitAlias /\ [][NextAlias]_vars

\* The generator's main sequence over registries whose alias links are sound.
SpecGen == InitGen /\ [][NextGen]_vars

\* ------------------------------------------------- the emitted code, run

\* epoxy_dlsym / epoxy_get_proc_address: the address of the symbol, or NULL
\* when it is not found. An address is named by the loader call that gave it.
LoaderResult(loader) ==
  IF loader[2] \in nosym THEN NULL ELSE loader

\* The emitted resolver body run from statement i: the first return whose
\* guard holds (an empty guard is an unconditional return), else the printf
\* lines and abort().
\* The conditions the emitted body has tested when it leaves at statement i.
GuardsTo(res, i) ==
  IF i >= 1 /\ res.body[1].guard = "" THEN <<>>
  ELSE [k \in 1..i |-> res.body[k].guard]

\* On a loader that finds nothing, goes on to the next provider.
MutRunBodyNextOnFailure(res, i) ==
  LET step[k \in 1..(Len(res.body) + 1)] ==
        IF k > Len(res.body)
          THEN [kind |-> "abort", val |-> NULL, loader |-> NULL,
                tested |-> GuardsTo(res, Len(res.body))]
        ELSE IF (res.body[k].guard = "" \/ env[res.body[k].guard])
                /\ LoaderResult(res.body[k].ret) # NULL
          THEN [kind |-> "return", val |-> LoaderResult(res.body[k].ret),
                loader |-> res.body[k].ret, tested |-> GuardsTo(res, k)]
        ELSE step[k + 1]
  IN step[i]

RECURSIVE RunBody(_, _)
RunBody(res, i) ==
  IF i > Len(res.body)
    THEN [kind |-> "abort", val |-> NULL, loader |-> NULL,
          tested |-> GuardsTo(res, Len(res.body))]
  ELSE IF res.body[i].guard = "" \/ env[res.body[i].guard]
    THEN [kind |-> "return", val |-> LoaderResult(res.body[i].ret),
          loader |-> res.body[i].ret, tested |-> GuardsTo(res, i)]
  ELSE RunBody(res, i + 1)

MutSlotTestInverted(slot) == slot # NULL

MutSlotTestDropped(slot) == TRUE

\* if (!dispatch_table->pNAME)
SlotUnresolved(slot) == slot = NULL

\* epoxy_NAME_resolver()
RunResolver(res) == RunBody(res, 1)

Running == pc = "run" /\ halted = "no"

\* A thread enters epoxy_<f>() and tests the dispatch table entry.
StubEnter(t, f) ==
  /\ Running
  /\ tpc[t] = "idle"
  /\ f \in DOMAIN stubs
  /\ tfn' = [tfn EXCEPT ![t] = f]
  /\ tpc' = [tpc EXCEPT ![t] =
               IF SlotUnresolved(table[stubs[f].entry]) THEN "resolve" ELSE "call"]
  /\ UNCHANGED gvars
  /\ UNCHANGED <<env, nosym, table, tval, halted, printed, runs, called, loaded, lastrun>>

\* The call of epoxy_<alias_name>_resolver() on the right of the assignment.
StubResolve(t) ==
  /\ Running
  /\ tpc[t] = "resolve"
  /\ LET name == stubs[tfn[t]].resolver
         r == RunResolver(resolvers[name])
     IN /\ runs' = [runs EXCEPT ![name] = @ + 1]
        /\ lastrun' = [resolver |-> name, tested |-> r.tested, loader |-> r.loader]
        /\ IF r.kind = "abort"
             THEN /\ halted' = "abort"
                  /\ printed' = <<name>> \o resolvers[name].diag
                  /\ UNCHANGED <<tval, tpc, loaded>>
           ELSE /\ tval' = [tval EXCEPT ![t] = r.val]
                /\ tpc' = [tpc EXCEPT ![t] = "store"]
                /\ loaded' = loaded \cup {r.loader}
                /\ UNCHANGED <<halted, printed>>
  /\ UNCHANGED gvars
  /\ UNCHANGED <<env, nosym, table, tfn, called>>

\* The assignment of the resolver's return value to the dispatch table entry.
StubStore(t) ==
  /\ Running
  /\ tpc[t] = "store"
  /\ table' = [table EXCEPT ![stubs[tfn[t]].entry] = tval[t]]
  /\ tval' = [tval EXCEPT ![t] = NULL]
  /\ tpc' = [tpc EXCEPT ![t] = "call"]
  /\ UNCHANGED gvars
  /\ UNCHANGED <<env, nosym, tfn, halted, printed, runs, called, loaded, lastrun>>

\* The call through the dispatch table entry, and the stub's return.
StubCall(t) ==
  /\ Running
  /\ tpc[t] = "call"
  /\ LET e == stubs[tfn[t]].entry
     IN IF table[e] = NULL
          THEN /\ halted' = "segv"
               /\ UNCHANGED <<tpc, tfn, called>>
        ELSE /\ called' = [called EXCEPT ![e] = @ \cup {table[e]}]
             /\ tpc' = [tpc EXCEPT ![t] = "idle"]
             /\ tfn' = [tfn EXCEPT ![t] = None]
             /\ UNCHANGED halted
  /\ UNCHANGED gvars
  /\ UNCHANGED <<env, nosym, table, tval, printed, runs, loaded, lastrun>>

\* Between two calls the application makes another context current: the
\* provider conditions and the symbols the loaders find are those of the new one.
MakeCurrent ==
  /\ Running
  /\ \A t \in Threads : tpc[t] = "idle"
  /\ \E e \in [Conditions -> BOOLEAN], m \in {{}, {"glFoo"}} :
       /\ <<e, m>> # <<env, nosym>>
       /\ env' = e
       /\ nosym' = m
  /\ UNCHANGED gvars
  /\ UNCHANGED <<table, tpc, tfn, tval, halted, printed, runs, called, loaded, lastrun>>

\* Registries of the run-time specifications: glFoo with a core and an
\* extension provider, glFooARB an alias of glFoo or of glGetString or of
\* nothing, glGetString (a bootstrap function) a root or an alias of glFoo.
RunAliases ==
  {a \in [{"glGetString", "glFoo", "glFooARB"} -> {None, "glFoo", "glGetString"}] :
     /\ a["glFoo"] = None
     /\ a["glGetString"] # "glGetString"}

RunRequires ==
  {r \in [{"glGetString", "glFoo", "glFooARB"} -> Requires] :
     /\ r["glGetString"] = <<1>>
     /\ r["glFoo"] # <<2>>
     /\ r["glFooARB"] \in {<<>>, <<2>>}}

InitRun ==
  /\ \E alias \in RunAliases, req \in RunRequires :
       InitWith(Parsed(alias, [n \in DOMAIN alias |-> "void"], req))
  /\ env \in [Conditions -> BOOLEAN]
  /\ nosym \in {{}, {"glFoo"}}

\* Threads call the stubs concurrently; the environment stays as it is.
NextRun ==
  \/ drop_weird_glx_functions
  \/ resolve_aliases
  \/ fixup_bootstrap_function
  \/ write_source
  \/ \E t \in Threads, f \in DOMAIN stubs : StubEnter(t, f)
  \/ \E t \in Threads : StubResolve(t)
  \/ \E t \in Threads : StubStore(t)
  \/ \E t \in Threads : StubCall(t)

\* One call at a time, from any thread; the context may change between calls.
NextSeq ==
  \/ drop_weird_glx_functions
  \/ resolve_aliases
  \/ fixup_bootstrap_function
  \/ write_source
  \/ \E t \in Threads, f \in DOMAIN stubs :
       (\A u \in Threads : tpc[u] = "idle") /\ StubEnter(t, f)
  \/ \E t \in Threads : StubResolve(t)
  \/ \E t \in Threads : StubStore(t)
  \/ \E t \in Threads : StubCall(t)
  \/ MakeCurrent

SpecRun == InitRun /\ [][NextRun]_vars

SpecSeq == InitRun /\ [][NextSeq]_vars

\* ------------------------------------------------------------ properties

\* The function set resolve_aliases starts from.
PostDrop == DropWeird(input)

AliasOf(fs) == [n \in DOMAIN fs |-> fs[n].alias_name]

\* Alias links acyclic, every target present.
WellFormed(fs) == IsForest(AliasOf(fs))

HasDangling(fs) ==
  \E n \in DOMAIN fs : fs[n].alias_name # None /\ fs[n].alias_name \notin DOMAIN fs

HasCycle(fs) ==
  \E n \in DOMAIN fs : n \in Targets(AliasOf(fs), n)

\* An alias whose target is itself an alias.
HasTransitive(fs) ==
  \E n \in DOMAIN fs :
    /\ fs[n].alias_name \in DOMAIN fs
    /\ fs[fs[n].alias_name].alias_name # None

\* Two functions declared aliases of the same function.
HasSharedTarget(fs) ==
  \E m, n \in DOMAIN fs :
    m # n /\ fs[m].alias_name # None /\ fs[m].alias_name = fs[n].alias_name

TrueRoot(fs, n) ==
  CHOOSE r \in Targets(AliasOf(fs), n) \cup {n} : fs[r].alias_name = None

Members(fs, r) ==
  {n \in DOMAIN fs : fs[n].alias_name # None /\ r \in Targets(AliasOf(fs), n)}

SeqSet(seq) == {seq[i] : i \in 1..Len(seq)}

\* C1: after resolve_aliases over an acyclic function set with every target
\* present, in whatever order the functions were visited, each function that
\* had an alias name has alias_name and alias_func equal to the true root of
\* its chain, that root has no alias_name, and the root's alias_exts holds
\* every direct and transitive member of the chain exactly once.
C1_AliasesFlattened ==
  (pc = "fixup" /\ WellFormed(PostDrop)) =>
    \A n \in DOMAIN PostDrop :
      IF PostDrop[n].alias_name # None
        THEN /\ functions[n].alias_name = TrueRoot(PostDrop, n)
             /\ functions[n].alias_func = TrueRoot(PostDrop, n)
             /\ functions[TrueRoot(PostDrop, n)].alias_name = None
      ELSE /\ functions[n].alias_name = None
           /\ SeqSet(functions[n].alias_exts) = Members(PostDrop, n)
           /\ Len(functions[n].alias_exts) = Cardinality(Members(PostDrop, n))

\* A chain of two links was reduced.
C1_Witness ==
  /\ pc = "fixup"
  /\ WellFormed(PostDrop)
  /\ HasTransitive(PostDrop)
  /\ \E r \in DOMAIN functions : Len(functions[r].alias_exts) >= 2

AlwaysPresent(name) ==
  [condition |-> "true", loader |-> Format(dlsym_loader, name),
   human_name |-> "always present"]

\* A function's own providers when the source is written: those of the
\* registry, or the bootstrap one.
OwnProviders(n) ==
  IF n \in BootstrapNames THEN << AlwaysPresent(n) >> ELSE input[n].providers

RECURSIVE SumLen(_, _)
SumLen(exts, k) ==
  IF k = 0 THEN 0 ELSE SumLen(exts, k - 1) + Len(OwnProviders(exts[k]))

\* C4: the provider list of a root's resolver is the root's own providers in
\* their order, then each alias's own providers, alias by alias in alias_exts
\* order and each in its own order: nothing dropped, duplicated or reordered;
\* without an unconditional provider the emitted tests follow that list.
C4_MergedInOrder ==
  pc = "run" =>
    \A r \in DOMAIN resolvers :
      LET L == resolvers[r].providers
          exts == functions[r].alias_exts
      IN /\ Len(L) = Len(OwnProviders(r)) + SumLen(exts, Len(exts))
         /\ \A k \in 1..Len(OwnProviders(r)) : L[k] = OwnProviders(r)[k]
         /\ \A i \in 1..Len(exts) :
              \A k \in 1..Len(OwnProviders(exts[i])) :
                L[Len(OwnProviders(r)) + SumLen(exts, i - 1) + k]
                  = OwnProviders(exts[i])[k]
         /\ ~HasGlobalLoader(L) =>
              /\ Len(resolvers[r].body) = Len(L)
              /\ \A k \in 1..Len(L) :
                   /\ resolvers[r].body[k].guard = L[k].condition
                   /\ resolvers[r].body[k].ret = L[k].loader

\* A root with two providers and an alias with one: a list of three.
C4_Witness ==
  /\ pc = "run"
  /\ \E r \in DOMAIN resolvers :
       /\ Len(input[r].providers) = 2
       /\ r \notin BootstrapNames
       /\ Len(functions[r].alias_exts) >= 1
       /\ Len(OwnProviders(functions[r].alias_exts[1])) = 1
       /\ functions[r].alias_exts[1] \notin BootstrapNames
       /\ Len(resolvers[r].providers) = 3
       /\ Len(resolvers[r].body) = 3

\* C5: once main has called fixup_bootstrap_function for glGetString,
\* glGetIntegerv and glXGetProcAddress, each of them that the registry
\* declares has exactly one provider: condition 'true', loader the dlsym
\* lookup of its own name, whatever the registry had required it from.
C5_BootstrapOverridden ==
  pc \in {"write", "run"} =>
    \A i \in 1..Len(BootstrapList) :
      BootstrapList[i] \in DOMAIN functions =>
        /\ Len(functions[BootstrapList[i]].providers) = 1
        /\ functions[BootstrapList[i]].providers[1].condition = "true"
        /\ functions[BootstrapList[i]].providers[1].loader
             = <<"epoxy_dlsym", BootstrapList[i]>>

\* A bootstrap function the registry had required from two features.
C5_Witness ==
  /\ pc = "write"
  /\ \E i \in 1..Len(BootstrapList) :
       /\ BootstrapList[i] \in DOMAIN functions
       /\ Len(input[BootstrapList[i]].providers) = 2
       /\ Len(functions[BootstrapList[i]].providers) = 1

\* C2 as stated: when the provider list of a resolver holds an unconditional
\* provider, at whatever position, the emitted resolver is a single return
\* of an unconditional provider's own loader and tests no condition.
C2_UnconditionalWins ==
  pc = "run" =>
    \A r \in DOMAIN resolvers :
      HasGlobalLoader(resolvers[r].providers) =>
        /\ Len(resolvers[r].body) = 1
        /\ resolvers[r].body[1].guard = ""
        /\ \E k \in 1..Len(resolvers[r].providers) :
             /\ resolvers[r].providers[k].condition = "true"
             /\ resolvers[r].providers[k].loader = resolvers[r].body[1].ret

\* The addresses the loader calls made so far returned.
LoadedResults == {LoaderResult(l) : l \in loaded}

Entry(t) == stubs[tfn[t]].entry

\* C3 as stated: no NULL address is ever assigned to a dispatch table entry
\* or called through; a resolver that finds no symbol ends in abort().
C3_NullNeverCached ==
  /\ \A t \in Threads : tpc[t] = "store" => tval[t] # NULL
  /\ halted # "segv"

\* C6 as stated: the lines an aborting resolver printed name every provider
\* of its provider list (its own and its aliases'), and "unknown" only when
\* that list is empty.
C6_DiagnosticListsAll ==
  halted = "abort" =>
    LET L == resolvers[Head(printed)].providers
    IN Tail(printed) = IF Len(L) = 0 THEN << "unknown" >>
                       ELSE [k \in 1..Len(L) |-> L[k].human_name]

\* C8: threads calling the same unresolved stub concurrently, in an
\* environment that does not change: whatever the interleaving of the entry
\* tests, resolver runs and entry assignments, every call through an entry
\* uses one address, the address the entry holds, returned by a loader call
\* that was made; a resolver result still to be stored equals what the entry
\* already holds; and no thread calls through an entry left NULL by the race
\* (a NULL entry is called only when a loader returned NULL).
C8_ConcurrentSameAddress ==
  pc = "run" =>
    /\ \A e \in table_slots :
         called[e] # {} =>
           /\ called[e] = {table[e]}
           /\ table[e] \in LoadedResults
    /\ \A t \in Threads :
         /\ (tpc[t] = "store" /\ table[Entry(t)] # NULL) => tval[t] = table[Entry(t)]
         /\ tpc[t] = "call" => (table[Entry(t)] # NULL \/ NULL \in LoadedResults)
    /\ halted = "segv" => NULL \in LoadedResults

\* Two threads in the same stub both ran its resolver; one has stored and
\* called, the other is about to store.
C8_Witness ==
  /\ pc = "run"
  /\ \E t, u \in Threads :
       /\ t # u
       /\ tfn[t] = tfn[u]
       /\ tpc[t] = "store"
       /\ tpc[u] = "idle" \/ tpc[u] = "call"
       /\ runs[stubs[tfn[t]].resolver] >= 2
       /\ table[Entry(t)] # NULL
       /\ tval[t] = table[Entry(t)]

\* The root of the alias group of a function, from the reduced alias links.
GroupRoot(n) ==
  IF functions[n].alias_func = None THEN n ELSE functions[n].alias_func

\* C10: the dispatch table has one entry, and the source one resolver, per
\* function that is not an alias; every stub uses the entry and resolver of
\* its group's root; over any sequence of calls, also across a change of
\* context, a resolver runs at most once, and every call through an entry
\* uses the address the entry holds.
C10_ResolvedOnce ==
  pc = "run" =>
    /\ table_slots = {n \in DOMAIN functions : functions[n].alias_func = None}
    /\ DOMAIN resolvers = table_slots
    /\ \A n \in DOMAIN stubs :
         /\ stubs[n].entry = GroupRoot(n)
         /\ stubs[n].resolver = GroupRoot(n)
    /\ \A r \in DOMAIN runs : runs[r] <= 1
    /\ \A e \in table_slots : called[e] # {} => called[e] = {table[e]}

\* A later call, through an alias's stub, finds the entry resolved by an
\* earlier call although the resolver would now return something else.
C10_Witness ==
  /\ pc = "run"
  /\ halted = "no"
  /\ \E t \in Threads :
       /\ tpc[t] = "call"
       /\ Entry(t) # tfn[t]
       /\ called[Entry(t)] # {}
       /\ runs[Entry(t)] = 1
       /\ RunResolver(resolvers[Entry(t)]).val # table[Entry(t)]

\* Positions of the providers of L whose condition holds now.
TrueAt(L) == {k \in 1..Len(L) : env[L[k].condition]}

\* The function whose <require> attached provider k of resolver r's list.
Owner(r, k) ==
  IF k <= Len(functions[r].providers) THEN r
  ELSE CHOOSE n \in SeqSet(functions[r].alias_exts) :
         \E j \in 1..Len(functions[n].providers) : functions[n].providers[j] = resolvers[r].providers[k]

\* C11: a resolver whose provider list has no unconditional provider tests
\* the conditions in list order and stops at the first true one: it has
\* tested exactly the conditions up to that provider, called that provider's
\* loader and no other, with the name of the function the provider was
\* attached to as the symbol, and returns what that loader returned, NULL
\* included; with no condition true it has tested them all, called no loader
\* and aborted.
C11_FirstTrueInOrder ==
  (pc = "run" /\ lastrun.resolver # None
     /\ (halted = "abort" \/ \E t \in Threads : tpc[t] = "store")) =>
    LET r == lastrun.resolver
        L == resolvers[r].providers
    IN ~HasGlobalLoader(L) =>
         IF TrueAt(L) = {}
           THEN /\ halted = "abort"
                /\ lastrun.tested = [k \in 1..Len(L) |-> L[k].condition]
                /\ lastrun.loader = NULL
         ELSE LET first == CHOOSE k \in TrueAt(L) : \A j \in TrueAt(L) : k <= j
              IN /\ halted # "abort"
                 /\ lastrun.tested = [k \in 1..first |-> L[k].condition]
                 /\ lastrun.loader = L[first].loader
                 /\ lastrun.loader[2] = Owner(r, first)
                 /\ \A t \in Threads :
                      tpc[t] = "store" => tval[t] = LoaderResult(L[first].loader)

\* The first true provider's loader found nothing although a later provider,
\* an alias's, also holds and would have found its symbol: NULL is returned.
C11_Witness ==
  /\ pc = "run"
  /\ \E t \in Threads :
       /\ tpc[t] = "store"
       /\ tval[t] = NULL
       /\ LET L == resolvers[lastrun.resolver].providers
          IN /\ ~HasGlobalLoader(L)
             /\ \E k \in TrueAt(L) :
                  /\ L[k].loader # lastrun.loader
                  /\ LoaderResult(L[k].loader) # NULL
                  /\ Len(lastrun.tested) < k

====
